---- MODULE Spec2Model ----
(***************************************************************************)
(* The task-assignment and handoff state machine of                       *)
(* scripts/multi_agent_collab.py: a task board loaded from todo.md, an      *)
(* assignment index, a note log, and nine agents run round-robin by        *)
(* run_round_robin until the board converges or the cycle budget is spent. *)
(* A second specification, SpecCalls, has a caller apply the operations   *)
(* of the context and single agents to a context it holds.                 *)
(*                                                                         *)
(* A Python str is a sequence of one-character strings, so that lower(),   *)
(* strip(), startswith(), replace() and the `in` substring test are         *)
(* computed as the code computes them.  A dict is a sequence of entries in *)
(* insertion order (task_board) or a function on the keys it holds         *)
(* (assignments).                                                          *)
(***************************************************************************)
EXTENDS Integers, Sequences, FiniteSets, TLC

VARIABLES
    repo_dirs,      \* CollaborationContext.repo_dirs
    task_board,     \* CollaborationContext.task_board, in insertion order
    assignments,    \* CollaborationContext.assignments
    execution_log,  \* CollaborationContext.execution_log
    cycles,         \* the argument of run_round_robin
    cycle,          \* iterations of the outer loop completed so far
    agent_idx,      \* position of the inner loop in `agents`
    pc,             \* "running", "returned" or "raised"; "called" when the
                    \* context is used without run_round_robin
    call            \* the last operation a caller applied to the context

vars == << repo_dirs, task_board, assignments, execution_log,
           cycles, cycle, agent_idx, pc, call >>

----------------------------------------------------------------------------
(* Bounds of the model *)

\* Largest value of the cycles argument that is explored.
MaxCycles == 5

\* Number of non-positive values of the cycles argument that are explored.
NonPositiveCycles == 2

\* operations a caller applies to a context it holds
MaxCalls == 3

----------------------------------------------------------------------------
(* Python str operations *)

None == "None"

UpperCase == <<"A","B","C","D","E","F","G","H","I","J","K","L","M","N","O","P","Q","R","S","T",
    "U","V","W","X","Y","Z">>

LowerCase == <<"a","b","c","d","e","f","g","h","i","j","k","l","m","n","o","p","q","r","s","t",
    "u","v","w","x","y","z">>

Whitespace == {" ", "\t"}

\* str.lower(), one character
LowerChar(c) ==
    IF \E i \in 1..Len(UpperCase) : UpperCase[i] = c
    THEN LowerCase[CHOOSE i \in 1..Len(UpperCase) : UpperCase[i] = c]
    ELSE c

\* str.lower()
Lower(s) == [i \in 1..Len(s) |-> LowerChar(s[i])]

\* str.startswith(prefix)
StartsWith(s, prefix) ==
    /\ Len(prefix) <= Len(s)
    /\ SubSeq(s, 1, Len(prefix)) = prefix

\* the `sub in s` substring test
Contains(s, sub) ==
    \E i \in 1..(Len(s) - Len(sub) + 1) : SubSeq(s, i, i + Len(sub) - 1) = sub

\* str.strip()
Strip(s) ==
    LET inked == {i \in 1..Len(s) : s[i] \notin Whitespace}
    IN  IF inked = {} THEN <<>>
        ELSE SubSeq(s, CHOOSE i \in inked : \A j \in inked : i <= j,
                       CHOOSE i \in inked : \A j \in inked : i >= j)

\* str.lstrip(chars) for a one-character set
LStripChar(s, c) ==
    LET other == {i \in 1..Len(s) : s[i] /= c}
    IN  IF other = {} THEN <<>>
        ELSE SubSeq(s, CHOOSE i \in other : \A j \in other : i <= j, Len(s))

\* str.replace(old, "", 1): the first occurrence of old removed
RemoveFirst(s, old) ==
    LET hits == {i \in 1..(Len(s) - Len(old) + 1) :
                    SubSeq(s, i, i + Len(old) - 1) = old}
    IN  IF hits = {} THEN s
        ELSE LET at == CHOOSE i \in hits : \A j \in hits : i <= j
             IN  SubSeq(s, 1, at - 1) \o SubSeq(s, at + Len(old), Len(s))

Max(a, b) == IF a >= b THEN a ELSE b

----------------------------------------------------------------------------
(* TaskEntry *)

Statuses == {"pending", "assigned", "ready-for-qa", "done", "released"}

\* TaskEntry(section, description): owner None, status "pending"
TaskEntry(section, description) ==
    [section |-> section, description |-> description,
     owner |-> None, status |-> "pending"]

KeySeparator == <<" ",":",":"," ">>

\* TaskEntry.key
Key(entry) == entry.section \o KeySeparator \o entry.description

\* key in task_board
HasKey(tb, key) == \E i \in 1..Len(tb) : Key(tb[i]) = key

\* task_board[key] / task_board.get(key), for a key the board holds
Entry(tb, key) == tb[CHOOSE i \in 1..Len(tb) : Key(tb[i]) = key]

\* tasks[entry.key()] = entry: a new key goes last, a known key keeps its place
Store(tb, entry) ==
    IF HasKey(tb, Key(entry))
    THEN [i \in 1..Len(tb) |-> IF Key(tb[i]) = Key(entry) THEN entry ELSE tb[i]]
    ELSE Append(tb, entry)

----------------------------------------------------------------------------
(* CollaborationContext._safe_load_tasks *)

SectionMarker == <<"#","#">>

TaskMarker == <<"-"," ","["," ","]">>

DefaultSection == <<"G","e","n","e","r","a","l">>

SystemSection == <<"S","y","s","t","e","m">>

FailurePrefix == <<"F","a","i","l","e","d"," ","t","o"," ","r","e","a","d"," ","t","o","d","o",
    ".","m","d"," ","(">>

FailureSuffix == <<")">>

\* The loop over contents.splitlines(), from line i on.
RECURSIVE LoadLines(_, _, _, _)
LoadLines(lines, i, current_section, tasks) ==
    IF i > Len(lines) THEN tasks
    ELSE LET line == Strip(lines[i])
         IN  IF StartsWith(line, SectionMarker)
             THEN LoadLines(lines, i + 1, Strip(LStripChar(line, "#")), tasks)
             ELSE IF StartsWith(line, TaskMarker)
             THEN LoadLines(lines, i + 1, current_section,
                      Store(tasks, TaskEntry(current_section,
                                             Strip(RemoveFirst(line, TaskMarker)))))
             ELSE LoadLines(lines, i + 1, current_section, tasks)

\* _safe_load_tasks without the FileNotFoundError clause: a missing todo.md
\* is caught as any other OSError
SafeLoadTasks_MissingAsFailure(todo) ==
    IF todo.read \in {"FileNotFoundError", "OSError"}
    THEN Store(<<>>, TaskEntry(SystemSection,
                               FailurePrefix \o todo.error \o FailureSuffix))
    ELSE LoadLines(todo.lines, 1, DefaultSection, <<>>)

\* todo is what reading todo.md gives: the lines read, FileNotFoundError, or
\* another OSError with its text.
SafeLoadTasks(todo) ==
    IF todo.read = "FileNotFoundError" THEN <<>>
    ELSE IF todo.read = "OSError"
    THEN Store(<<>>, TaskEntry(SystemSection,
                               FailurePrefix \o todo.error \o FailureSuffix))
    ELSE LoadLines(todo.lines, 1, DefaultSection, <<>>)

----------------------------------------------------------------------------
(* CollaborationContext: the operations on the shared state.  A context is *)
(* the record of the two fields the agents write.                          *)

Terminal == {"done", "released"}

IsOpen(entry) == entry.status \notin Terminal

KeysOf(entries) == [i \in 1..Len(entries) |-> Key(entries[i])]

\* CollaborationContext.pending_tasks
pending_tasks(context) == KeysOf(SelectSeq(context.task_board, IsOpen))

\* setdefault(owner, []) with the key appended only if the list lacks it
SetDefaultAppend_Once(index, owner, key) ==
    [o \in DOMAIN index \cup {owner} |->
        IF o = owner
        THEN LET list == IF o \in DOMAIN index THEN index[o] ELSE <<>>
             IN  IF \E k \in 1..Len(list) : list[k] = key
                 THEN list ELSE Append(list, key)
        ELSE index[o]]

\* assignments.setdefault(owner, []).append(key)
SetDefaultAppend(index, owner, key) ==
    [o \in DOMAIN index \cup {owner} |->
        IF o = owner
        THEN Append(IF o \in DOMAIN index THEN index[o] ELSE <<>>, key)
        ELSE index[o]]

\* assign_task with `entry.status = "assigned"` left out
assign_task_KeepStatus(context, key, owner) ==
    IF ~HasKey(context.task_board, key) THEN context
    ELSE [task_board |->
              [i \in 1..Len(context.task_board) |->
                  IF Key(context.task_board[i]) = key
                  THEN [context.task_board[i] EXCEPT !.owner = owner]
                  ELSE context.task_board[i]],
          assignments |-> SetDefaultAppend(context.assignments, owner, key)]

\* assign_task with `entry.owner = owner` left out
assign_task_NoOwner(context, key, owner) ==
    IF ~HasKey(context.task_board, key) THEN context
    ELSE [task_board |->
              [i \in 1..Len(context.task_board) |->
                  IF Key(context.task_board[i]) = key
                  THEN [context.task_board[i] EXCEPT !.status = "assigned"]
                  ELSE context.task_board[i]],
          assignments |-> SetDefaultAppend(context.assignments, owner, key)]

\* assign_task with the append to the index moved before the lookup
assign_task_AppendFirst(context, key, owner) ==
    IF ~HasKey(context.task_board, key)
    THEN [context EXCEPT
              !.assignments = SetDefaultAppend(context.assignments, owner, key)]
    ELSE [task_board |->
              [i \in 1..Len(context.task_board) |->
                  IF Key(context.task_board[i]) = key
                  THEN [context.task_board[i] EXCEPT
                            !.owner = owner, !.status = "assigned"]
                  ELSE context.task_board[i]],
          assignments |-> SetDefaultAppend(context.assignments, owner, key)]

\* CollaborationContext.assign_task
assign_task(context, key, owner) ==
    IF ~HasKey(context.task_board, key) THEN context
    ELSE [task_board |->
              [i \in 1..Len(context.task_board) |->
                  IF Key(context.task_board[i]) = key
                  THEN [context.task_board[i] EXCEPT
                            !.owner = owner, !.status = "assigned"]
                  ELSE context.task_board[i]],
          assignments |-> SetDefaultAppend(context.assignments, owner, key)]

\* update_status refusing to leave a terminal status
update_status_Guarded(context, key, status) ==
    IF ~HasKey(context.task_board, key) THEN context
    ELSE [context EXCEPT !.task_board =
              [i \in 1..Len(context.task_board) |->
                  IF Key(context.task_board[i]) = key
                         /\ context.task_board[i].status \notin Terminal
                  THEN [context.task_board[i] EXCEPT !.status = status]
                  ELSE context.task_board[i]]]

\* update_status taking a released task off the board
update_status_DropReleased(context, key, status) ==
    IF ~HasKey(context.task_board, key) THEN context
    ELSE IF status = "released"
    THEN [context EXCEPT !.task_board =
              SelectSeq(context.task_board, LAMBDA entry : Key(entry) /= key)]
    ELSE [context EXCEPT !.task_board =
              [i \in 1..Len(context.task_board) |->
                  IF Key(context.task_board[i]) = key
                  THEN [context.task_board[i] EXCEPT !.status = status]
                  ELSE context.task_board[i]]]

\* CollaborationContext.update_status
update_status(context, key, status) ==
    IF ~HasKey(context.task_board, key) THEN context
    ELSE [context EXCEPT !.task_board =
              [i \in 1..Len(context.task_board) |->
                  IF Key(context.task_board[i]) = key
                  THEN [context.task_board[i] EXCEPT !.status = status]
                  ELSE context.task_board[i]]]

\* CollaborationContext.tasks_for_agent
tasks_for_agent(context, owner) ==
    IF owner \in DOMAIN context.assignments
    THEN context.assignments[owner] ELSE <<>>

KW_test == <<"t","e","s","t">>

\* CollaborationContext.section_dependencies
section_dependencies(context, section) ==
    LET Gates(entry) == /\ entry.section = section
                        /\ Contains(Lower(entry.description), KW_test)
    IN  KeysOf(SelectSeq(context.task_board, Gates))

\* is_converged with the `not` left out
is_converged_Inverted(context) == pending_tasks(context) /= <<>>

\* CollaborationContext.is_converged
is_converged(context) == pending_tasks(context) = <<>>

----------------------------------------------------------------------------
(* The agents' perform methods.  Each gives the context it leaves, the     *)
(* message it returns (its kind and the items joined into it) and whether  *)
(* a task_board[key] lookup raised KeyError.                               *)

Outcome(context, kind, items) ==
    [context |-> context, message |-> [kind |-> kind, items |-> items],
     raised |-> FALSE]

KeyError(context) ==
    [context |-> context, message |-> [kind |-> "KeyError", items |-> <<>>],
     raised |-> TRUE]

PreviewSize == 6

\* LeadArchitect.perform
LeadArchitect_perform(context, dirs) ==
    LET preview == IF Len(dirs) > PreviewSize
                   THEN Append(SubSeq(dirs, 1, PreviewSize), "...")
                   ELSE dirs
    IN  [context |-> context,
         message |-> [kind |-> "repo-scan", items |-> preview,
                      task_count |-> Len(pending_tasks(context))],
         raised |-> FALSE]

FRONTEND_KEYWORDS == << <<"s","i","d","e","b","a","r">>, <<"l","i","n","k">>, <<"u","i">> >>

KW_deploy == <<"d","e","p","l","o","y">>

\* the routing with the deploy rule tried before the frontend keywords
Route_DeployFirst(entry) ==
    LET description == Lower(entry.description)
    IN  IF Contains(description, KW_deploy) THEN "Release Engineer"
        ELSE IF \E k \in 1..Len(FRONTEND_KEYWORDS) :
                    Contains(description, FRONTEND_KEYWORDS[k])
        THEN "Frontend Agent"
        ELSE IF Contains(description, KW_test) THEN "Backend Agent"
        ELSE "Optimization Agent"

\* the routing handing a task that already has an owner to the
\* Optimization Agent
Route_Escalate(entry) ==
    LET description == Lower(entry.description)
    IN  IF entry.owner /= None THEN "Optimization Agent"
        ELSE IF \E k \in 1..Len(FRONTEND_KEYWORDS) :
                    Contains(description, FRONTEND_KEYWORDS[k])
        THEN "Frontend Agent"
        ELSE IF Contains(description, KW_deploy) THEN "Release Engineer"
        ELSE IF Contains(description, KW_test) THEN "Backend Agent"
        ELSE "Optimization Agent"

\* Architect.perform, the routing of one description
Route(entry) ==
    LET description == Lower(entry.description)
    IN  IF \E k \in 1..Len(FRONTEND_KEYWORDS) :
               Contains(description, FRONTEND_KEYWORDS[k])
        THEN "Frontend Agent"
        ELSE IF Contains(description, KW_deploy) THEN "Release Engineer"
        ELSE IF Contains(description, KW_test) THEN "Backend Agent"
        ELSE "Optimization Agent"

\* Architect.perform, the loop over the pending keys from keys[i] on
RECURSIVE ArchitectLoop(_, _, _, _)
ArchitectLoop(context, keys, i, dispatched) ==
    IF i > Len(keys)
    THEN IF dispatched = <<>> THEN Outcome(context, "architect-hold", <<>>)
         ELSE Outcome(context, "architect-dispatched", dispatched)
    ELSE IF ~HasKey(context.task_board, keys[i]) THEN KeyError(context)
    ELSE LET owner == Route(Entry(context.task_board, keys[i]))
         IN  ArchitectLoop(assign_task(context, keys[i], owner), keys, i + 1,
                           Append(dispatched, <<owner, keys[i]>>))

\* Architect.perform
Architect_perform(context) ==
    ArchitectLoop(context, pending_tasks(context), 1, <<>>)

\* BackendAgent.perform and FrontendAgent.perform, the loop over the
\* agent's keys from tasks[i] on: each is set to `status`
RECURSIVE AdvanceLoop(_, _, _, _, _, _)
AdvanceLoop(context, tasks, i, status, kind, handled) ==
    IF i > Len(tasks) THEN Outcome(context, kind, handled)
    ELSE IF ~HasKey(context.task_board, tasks[i]) THEN KeyError(context)
    ELSE LET entry == Entry(context.task_board, tasks[i])
         IN  AdvanceLoop(update_status(context, tasks[i], status), tasks,
                         i + 1, status, kind,
                         Append(handled, <<entry.section, entry.description>>))

\* BackendAgent.perform
BackendAgent_perform(context, name) ==
    LET tasks == tasks_for_agent(context, name)
    IN  IF tasks = <<>> THEN Outcome(context, "backend-quiet", <<>>)
        ELSE AdvanceLoop(context, tasks, 1, "ready-for-qa",
                         "backend-completed", <<>>)

\* FrontendAgent.perform setting the status BackendAgent.perform sets
FrontendAgent_perform_ReadyForQA(context, name) ==
    LET tasks == tasks_for_agent(context, name)
    IN  IF tasks = <<>> THEN Outcome(context, "frontend-stable", <<>>)
        ELSE AdvanceLoop(context, tasks, 1, "ready-for-qa",
                         "frontend-verified", <<>>)

\* FrontendAgent.perform finishing one task a run: the first of its list
\* that is still assigned
FrontendAgent_perform_OneOpen(context, name) ==
    LET Open(key) == /\ HasKey(context.task_board, key)
                     /\ Entry(context.task_board, key).status = "assigned"
        tasks == SelectSeq(tasks_for_agent(context, name), Open)
    IN  IF tasks = <<>> THEN Outcome(context, "frontend-stable", <<>>)
        ELSE AdvanceLoop(context, SubSeq(tasks, 1, 1), 1, "done",
                         "frontend-verified", <<>>)

\* FrontendAgent.perform
FrontendAgent_perform(context, name) ==
    LET tasks == tasks_for_agent(context, name)
    IN  IF tasks = <<>> THEN Outcome(context, "frontend-stable", <<>>)
        ELSE AdvanceLoop(context, tasks, 1, "done", "frontend-verified", <<>>)

\* OptimizationAgent.perform taking the first unowned task for itself
OptimizationAgent_perform_AutoAssign(context) ==
    LET Orphan(entry) == IsOpen(entry) /\ entry.owner = None
        orphaned == KeysOf(SelectSeq(context.task_board, Orphan))
    IN  IF orphaned /= <<>>
        THEN Outcome(assign_task(context, orphaned[1], "Optimization Agent"),
                     "unowned-tasks", orphaned)
        ELSE Outcome(context, "throughput-clean", <<>>)

\* OptimizationAgent.perform looking at pending tasks only
OptimizationAgent_perform_PendingOnly(context) ==
    LET Orphan(entry) == entry.status = "pending" /\ entry.owner = None
        orphaned == KeysOf(SelectSeq(context.task_board, Orphan))
    IN  IF orphaned /= <<>> THEN Outcome(context, "unowned-tasks", orphaned)
        ELSE Outcome(context, "throughput-clean", <<>>)

\* OptimizationAgent.perform completing the tasks of its own list as the
\* Frontend Agent does
OptimizationAgent_perform_Completes(context) ==
    LET tasks == tasks_for_agent(context, "Optimization Agent")
    IN  IF tasks = <<>> THEN Outcome(context, "throughput-clean", <<>>)
        ELSE AdvanceLoop(context, tasks, 1, "done", "unowned-tasks", <<>>)

\* OptimizationAgent.perform
OptimizationAgent_perform(context) ==
    LET Orphan(entry) == IsOpen(entry) /\ entry.owner = None
        orphaned == KeysOf(SelectSeq(context.task_board, Orphan))
    IN  IF orphaned /= <<>> THEN Outcome(context, "unowned-tasks", orphaned)
        ELSE Outcome(context, "throughput-clean", <<>>)

\* QAAgent.perform validating only what the Backend Agent owns
QAAgent_perform_BackendOnly(context) ==
    LET Ready(entry) == /\ entry.status = "ready-for-qa"
                        /\ entry.owner = "Backend Agent"
        ready == KeysOf(SelectSeq(context.task_board, Ready))
    IN  IF ready = <<>> THEN Outcome(context, "qa-nothing-new", <<>>)
        ELSE AdvanceLoop(context, ready, 1, "done", "qa-approved", <<>>)

\* QAAgent.perform
QAAgent_perform(context) ==
    LET Ready(entry) == entry.status = "ready-for-qa"
        ready == KeysOf(SelectSeq(context.task_board, Ready))
    IN  IF ready = <<>> THEN Outcome(context, "qa-nothing-new", <<>>)
        ELSE AdvanceLoop(context, ready, 1, "done", "qa-approved", <<>>)

WaitingOnTests == <<"w","a","i","t","i","n","g"," ","o","n"," ","t","e","s","t","s">>

\* the gate with any() for all()
Gated_Any(context, entry) ==
    LET dependencies == section_dependencies(context, entry.section)
    IN  \E d \in 1..Len(dependencies) :
            Entry(context.task_board, dependencies[d]).status = "done"

\* the gate leaving the task itself out of its dependencies
Gated_NotSelf(context, entry) ==
    LET dependencies == section_dependencies(context, entry.section)
    IN  \A d \in 1..Len(dependencies) :
            \/ dependencies[d] = Key(entry)
            \/ Entry(context.task_board, dependencies[d]).status = "done"

\* ReleaseEngineer.perform, the gate of one task
Gated(context, entry) ==
    LET dependencies == section_dependencies(context, entry.section)
    IN  \A d \in 1..Len(dependencies) :
            Entry(context.task_board, dependencies[d]).status = "done"

\* ReleaseEngineer.perform, the loop over the agent's keys from tasks[i] on
RECURSIVE ReleaseLoop(_, _, _, _, _)
ReleaseLoop(context, tasks, i, released, blocked) ==
    IF i > Len(tasks)
    THEN IF blocked /= <<>> THEN Outcome(context, "release-blocked", blocked)
         ELSE Outcome(context, "release-packaged", released)
    ELSE IF ~HasKey(context.task_board, tasks[i]) THEN KeyError(context)
    ELSE LET entry == Entry(context.task_board, tasks[i])
         IN  IF Gated(context, entry)
             THEN ReleaseLoop(update_status(context, tasks[i], "released"),
                      tasks, i + 1,
                      Append(released, <<entry.section, entry.description>>),
                      blocked)
             ELSE ReleaseLoop(context, tasks, i + 1, released,
                      Append(blocked, <<entry.section, WaitingOnTests>>))

\* ReleaseEngineer.perform
ReleaseEngineer_perform(context, name) ==
    LET tasks == tasks_for_agent(context, name)
    IN  IF tasks = <<>> THEN Outcome(context, "release-none-queued", <<>>)
        ELSE ReleaseLoop(context, tasks, 1, <<>>, <<>>)

\* DocumentationAgent.perform
DocumentationAgent_perform(context) ==
    LET Stable(entry) == entry.status \in Terminal
        completed == KeysOf(SelectSeq(context.task_board, Stable))
    IN  IF completed = <<>> THEN Outcome(context, "docs-unchanged", <<>>)
        ELSE Outcome(context, "release-notes", completed)

\* ReviewArchitect.perform
ReviewArchitect_perform(context) ==
    LET remaining == pending_tasks(context)
    IN  IF remaining /= <<>> THEN Outcome(context, "outstanding", remaining)
        ELSE Outcome(context, "converged", <<>>)

----------------------------------------------------------------------------
(* run_round_robin *)

\* the agents list with the Release Engineer placed before the QA Agent
agents_ReleaseBeforeQA ==
    << [class |-> "LeadArchitect", name |-> "Lead Architect",
        recipient |-> "Architect"],
       [class |-> "Architect", name |-> "Architect",
        recipient |-> "Backend Agent"],
       [class |-> "BackendAgent", name |-> "Backend Agent",
        recipient |-> "Frontend Agent"],
       [class |-> "FrontendAgent", name |-> "Frontend Agent",
        recipient |-> "Optimization Agent"],
       [class |-> "OptimizationAgent", name |-> "Optimization Agent",
        recipient |-> "QA Agent"],
       [class |-> "ReleaseEngineer", name |-> "Release Engineer",
        recipient |-> "Documentation Agent"],
       [class |-> "QAAgent", name |-> "QA Agent",
        recipient |-> "Release Engineer"],
       [class |-> "DocumentationAgent", name |-> "Documentation Agent",
        recipient |-> "Review Architect"],
       [class |-> "ReviewArchitect", name |-> "Review Architect",
        recipient |-> "Lead Architect"] >>

\* the agents list with the Review Architect handing off to the Architect
agents_ReviewToArchitect ==
    << [class |-> "LeadArchitect", name |-> "Lead Architect",
        recipient |-> "Architect"],
       [class |-> "Architect", name |-> "Architect",
        recipient |-> "Backend Agent"],
       [class |-> "BackendAgent", name |-> "Backend Agent",
        recipient |-> "Frontend Agent"],
       [class |-> "FrontendAgent", name |-> "Frontend Agent",
        recipient |-> "Optimization Agent"],
       [class |-> "OptimizationAgent", name |-> "Optimization Agent",
        recipient |-> "QA Agent"],
       [class |-> "QAAgent", name |-> "QA Agent",
        recipient |-> "Release Engineer"],
       [class |-> "ReleaseEngineer", name |-> "Release Engineer",
        recipient |-> "Documentation Agent"],
       [class |-> "DocumentationAgent", name |-> "Documentation Agent",
        recipient |-> "Review Architect"],
       [class |-> "ReviewArchitect", name |-> "Review Architect",
        recipient |-> "Architect"] >>

\* the agents list with the QA Agent placed before the Backend Agent
agents_QABeforeBackend ==
    << [class |-> "LeadArchitect", name |-> "Lead Architect",
        recipient |-> "Architect"],
       [class |-> "Architect", name |-> "Architect",
        recipient |-> "QA Agent"],
       [class |-> "QAAgent", name |-> "QA Agent",
        recipient |-> "Backend Agent"],
       [class |-> "BackendAgent", name |-> "Backend Agent",
        recipient |-> "Frontend Agent"],
       [class |-> "FrontendAgent", name |-> "Frontend Agent",
        recipient |-> "Optimization Agent"],
       [class |-> "OptimizationAgent", name |-> "Optimization Agent",
        recipient |-> "Release Engineer"],
       [class |-> "ReleaseEngineer", name |-> "Release Engineer",
        recipient |-> "Documentation Agent"],
       [class |-> "DocumentationAgent", name |-> "Documentation Agent",
        recipient |-> "Review Architect"],
       [class |-> "ReviewArchitect", name |-> "Review Architect",
        recipient |-> "Lead Architect"] >>

\* the agents list of run_round_robin
agents ==
    << [class |-> "LeadArchitect", name |-> "Lead Architect",
        recipient |-> "Architect"],
       [class |-> "Architect", name |-> "Architect",
        recipient |-> "Backend Agent"],
       [class |-> "BackendAgent", name |-> "Backend Agent",
        recipient |-> "Frontend Agent"],
       [class |-> "FrontendAgent", name |-> "Frontend Agent",
        recipient |-> "Optimization Agent"],
       [class |-> "OptimizationAgent", name |-> "Optimization Agent",
        recipient |-> "QA Agent"],
       [class |-> "QAAgent", name |-> "QA Agent",
        recipient |-> "Release Engineer"],
       [class |-> "ReleaseEngineer", name |-> "Release Engineer",
        recipient |-> "Documentation Agent"],
       [class |-> "DocumentationAgent", name |-> "Documentation Agent",
        recipient |-> "Review Architect"],
       [class |-> "ReviewArchitect", name |-> "Review Architect",
        recipient |-> "Lead Architect"] >>

NumAgents == Len(agents)

\* position of the agent of a class in the agents list
IndexOf(class) == CHOOSE i \in 1..NumAgents : agents[i].class = class

\* range(cycles): the minimum of one cycle left out
CycleBudget_Raw(c) == c

\* range(max(1, cycles) + 1): one cycle too many
CycleBudget_OneMore(c) == Max(1, c) + 1

\* range(max(1, cycles)): the number of iterations of the outer loop
CycleBudget(c) == Max(1, c)

Context == [task_board |-> task_board, assignments |-> assignments]

\* no operation applied yet
NoCall == [op |-> "none", key |-> << >>, arg |-> "", n |-> 0, same |-> 0]

\* Agent.run with execution_log.insert(0, note) for append(note)
Run_Prepend(class, outcome) ==
    /\ pc = "running"
    /\ agent_idx = IndexOf(class)
    /\ IF outcome.raised
       THEN /\ pc' = "raised"
            /\ UNCHANGED << task_board, assignments, execution_log, agent_idx >>
       ELSE /\ task_board' = outcome.context.task_board
            /\ assignments' = outcome.context.assignments
            /\ execution_log' =
                   << [from_agent |-> agents[agent_idx].name,
                       to_agent |-> agents[agent_idx].recipient,
                       message |-> outcome.message] >> \o execution_log
            /\ agent_idx' = agent_idx + 1
            /\ pc' = pc
    /\ UNCHANGED << repo_dirs, cycles, cycle, call >>

\* Agent.run for the agent at the inner loop's position: perform, then the
\* note appended to the log.  A KeyError leaves run_round_robin.
Run(class, outcome) ==
    /\ pc = "running"
    /\ agent_idx = IndexOf(class)
    /\ IF outcome.raised
       THEN /\ pc' = "raised"
            /\ UNCHANGED << task_board, assignments, execution_log, agent_idx >>
       ELSE /\ task_board' = outcome.context.task_board
            /\ assignments' = outcome.context.assignments
            /\ execution_log' = Append(execution_log,
                   [from_agent |-> agents[agent_idx].name,
                    to_agent |-> agents[agent_idx].recipient,
                    message |-> outcome.message])
            /\ agent_idx' = agent_idx + 1
            /\ pc' = pc
    /\ UNCHANGED << repo_dirs, cycles, cycle, call >>

LeadArchitect == Run("LeadArchitect", LeadArchitect_perform(Context, repo_dirs))

Architect == Run("Architect", Architect_perform(Context))

BackendAgent ==
    Run("BackendAgent",
        BackendAgent_perform(Context, agents[IndexOf("BackendAgent")].name))

FrontendAgent ==
    Run("FrontendAgent",
        FrontendAgent_perform(Context, agents[IndexOf("FrontendAgent")].name))

OptimizationAgent == Run("OptimizationAgent", OptimizationAgent_perform(Context))

QAAgent == Run("QAAgent", QAAgent_perform(Context))

ReleaseEngineer ==
    Run("ReleaseEngineer",
        ReleaseEngineer_perform(Context, agents[IndexOf("ReleaseEngineer")].name))

DocumentationAgent == Run("DocumentationAgent", DocumentationAgent_perform(Context))

ReviewArchitect == Run("ReviewArchitect", ReviewArchitect_perform(Context))

\* the inner loop is over: every agent of the cycle has run
CycleOver == pc = "running" /\ agent_idx = NumAgents + 1

\* `if context.is_converged(): break`, then `return context`
BreakConverged ==
    /\ CycleOver
    /\ is_converged(Context)
    /\ cycle' = cycle + 1
    /\ pc' = "returned"
    /\ UNCHANGED << repo_dirs, task_board, assignments, execution_log,
                    cycles, agent_idx, call >>

\* not converged and the range has a next value: the next cycle starts
NextCycle ==
    /\ CycleOver
    /\ ~is_converged(Context)
    /\ cycle + 1 < CycleBudget(cycles)
    /\ cycle' = cycle + 1
    /\ agent_idx' = 1
    /\ UNCHANGED << repo_dirs, task_board, assignments, execution_log,
                    cycles, pc, call >>

\* not converged and the range is exhausted: `return context`
BudgetSpent ==
    /\ CycleOver
    /\ ~is_converged(Context)
    /\ cycle + 1 >= CycleBudget(cycles)
    /\ cycle' = cycle + 1
    /\ pc' = "returned"
    /\ UNCHANGED << repo_dirs, task_board, assignments, execution_log,
                    cycles, agent_idx, call >>

Next ==
    \/ LeadArchitect
    \/ Architect
    \/ BackendAgent
    \/ FrontendAgent
    \/ OptimizationAgent
    \/ QAAgent
    \/ ReleaseEngineer
    \/ DocumentationAgent
    \/ ReviewArchitect
    \/ BreakConverged
    \/ NextCycle
    \/ BudgetSpent

----------------------------------------------------------------------------
(* The inputs: what reading todo.md gives, the repository scan, cycles *)

TodoLines(lines) == [read |-> "ok", lines |-> lines, error |-> <<>>]

TodoMissing == [read |-> "FileNotFoundError", lines |-> <<>>, error |-> <<>>]

TodoUnreadable ==
    [read |-> "OSError", lines |-> <<>>, error |-> <<"P","e","r","m","i","s","s","i","o","n",
        " ","d","e","n","i","e","d">>]

\* one Frontend task
TodoUI == TodoLines(<< <<"#","#"," ","U","I">>, <<"-"," ","["," ","]"," ","A","d","d"," ","s",
    "i","d","e","b","a","r"," ","l","i","n","k"," ","t","o"," ","c","h","a","n","g","e","l","o",
    "g">> >>)

\* a test task and a deploy task of one section
TodoOps ==
    TodoLines(<< <<"#"," ","P","l","a","n">>, <<>>, <<"#","#"," ","O","p","s">>, <<"-"," ","[",
        " ","]"," ","R","u","n"," ","i","n","t","e","g","r","a","t","i","o","n"," ","t","e","s",
        "t">>,
                 <<"-"," ","["," ","]"," ","D","e","p","l","o","y"," ","s","e","r","v","i","c",
                     "e">> >>)

\* the same two tasks, the deploy task first
TodoOpsDeployFirst ==
    TodoLines(<< <<"#","#"," ","O","p","s">>, <<" "," "," ","-"," ","["," ","]"," ","D","e","p",
        "l","o","y"," ","s","e","r","v","i","c","e"," ">>, <<"-"," ","[","x","]"," ","W","r",
        "i","t","e"," ","n","o","t","e","s">>,
                 <<"-"," ","["," ","]"," ","R","u","n"," ","i","n","t","e","g","r","a","t","i",
                     "o","n"," ","t","e","s","t">> >>)

\* a test task before any heading and a task no keyword routes
TodoMixed ==
    TodoLines(<< <<"-"," ","["," ","]"," ","R","u","n"," ","i","n","t","e","g","r","a","t","i",
        "o","n"," ","t","e","s","t">>, <<" "," ","#","#"," ","C","o","r","e"," "," ">>,
                 <<"-"," ","["," ","]"," ","R","e","f","a","c","t","o","r"," ","c","a","c","h",
                     "e">> >>)

\* a deploy task that is a test task, and a deploy task of its section
TodoSelfGated ==
    TodoLines(<< <<"#","#"," ","O","p","s">>, <<"-"," ","["," ","]"," ","D","e","p","l","o","y",
        " ","T","E","S","T"," ","i","m","a","g","e">>, <<"-"," ","["," ","]"," ","D","e","p",
        "l","o","y"," ","s","e","r","v","i","c","e">> >>)

\* a deploy task alone, listed twice
TodoDeployOnly ==
    TodoLines(<< <<"#","#"," ","O","p","s">>, <<"-"," ","["," ","]"," ","D","e","p","l","o","y",
        " ","s","e","r","v","i","c","e">>, <<"-"," ","["," ","]"," ","D","e","p","l","o","y",
        " ","s","e","r","v","i","c","e">> >>)

\* a Frontend task that is a test task, and the two tasks of another section
TodoThree ==
    TodoLines(<< <<"#","#"," ","U","I">>, <<"-"," ","["," ","]"," ","B","u","i","l","d"," ","U",
        "I"," ","t","e","s","t">>, <<"#","#"," ","O","p","s">>,
                 <<"-"," ","["," ","]"," ","R","u","n"," ","i","n","t","e","g","r","a","t","i",
                     "o","n"," ","t","e","s","t">>, <<"-"," ","["," ","]"," ","D","e","p","l",
                     "o","y"," ","s","e","r","v","i","c","e">> >>)

\* one Frontend task that is a deploy task and a test task as well
TodoAllKeywords == TodoLines(<< <<"-"," ","["," ","]"," ","D","e","p","l","o","y"," ","U","I",
    " ","l","i","n","k"," ","t","e","s","t">> >>)

\* a deploy task, and in another section a deploy task that is a test task
TodoTwoSections ==
    TodoLines(<< <<"#","#"," ","O","p","s">>, <<"-"," ","["," ","]"," ","D","e","p","l","o","y",
        " ","s","e","r","v","i","c","e">>, <<"#","#"," ","L","a","b">>,
                 <<"-"," ","["," ","]"," ","D","e","p","l","o","y"," ","T","E","S","T"," ","i",
                     "m","a","g","e">> >>)

TodoEmpty == TodoLines(<< >>)

\* two Frontend tasks, one of them a test task
TodoFrontend ==
    TodoLines(<< <<"#","#"," ","W","e","b">>, <<"-"," ","["," ","]"," ","F","i","x"," ","L","I",
        "N","K">>, <<"-"," ","["," ","]"," ","P","o","l","i","s","h"," ","u","i"," ","t","e",
        "s","t">> >>)

\* a test task and a deploy task of one section, and a task no keyword
\* routes
TodoOpsCore ==
    TodoLines(<< <<"#","#"," ","O","p","s">>, <<"-"," ","["," ","]"," ","R","u","n"," ","i","n",
        "t","e","g","r","a","t","i","o","n"," ","t","e","s","t">>, <<"-"," ","["," ","]"," ",
        "D","e","p","l","o","y"," ","s","e","r","v","i","c","e">>,
                 <<"#","#"," ","C","o","r","e">>, <<"-"," ","["," ","]"," ","R","e","f","a","c",
                     "t","o","r"," ","c","a","c","h","e">> >>)

\* todo.md is a directory, of a repository checked out under a path that
\* holds the word test
TodoIsDirectory ==
    [read |-> "OSError", lines |-> <<>>,
     error |-> <<"[","E","r","r","n","o"," ","2","1","]"," ","I","s"," ","a"," ","d","i","r",
         "e","c","t","o","r","y",":"," ","'","/","s","r","v","/","t","e","s","t","/","t","o",
         "d","o",".","m","d","'">>]

TodoFiles ==
    { TodoMissing, TodoUnreadable, TodoEmpty, TodoUI, TodoOps,
      TodoOpsDeployFirst, TodoMixed, TodoSelfGated, TodoDeployOnly, TodoThree,
      TodoAllKeywords, TodoTwoSections, TodoFrontend, TodoOpsCore,
      TodoIsDirectory }

\* results of _safe_scan_repo
RepoScans ==
    { << "docs", "scripts", "src" >>,
      << "api", "docs", "drizzle", "public", "scripts", "src", "tests" >> }

CyclesArgs == (1 - NonPositiveCycles)..MaxCycles

\* CollaborationContext() and the entry into the loops of run_round_robin
InitFrom(board) ==
    /\ repo_dirs \in RepoScans
    /\ task_board = board
    /\ assignments = << >>
    /\ execution_log = << >>
    /\ cycles \in CyclesArgs
    /\ cycle = 0
    /\ agent_idx = 1
    /\ pc = IF 0 < CycleBudget(cycles) THEN "running" ELSE "returned"
    /\ call = NoCall

Init == \E todo \in TodoFiles : InitFrom(SafeLoadTasks(todo))

Spec == Init /\ [][Next]_vars

----------------------------------------------------------------------------
(* A pre-seeded board: the entries of a loaded board, each constructed     *)
(* with any status and owner (TaskEntry's optional fields), under a        *)
(* context whose assignments and log are new.                              *)

SeedOwners == {None, "Backend Agent"}

Seeded(board) ==
    { [i \in 1..Len(board) |->
          [board[i] EXCEPT !.status = seed[i][1], !.owner = seed[i][2]]] :
      seed \in [1..Len(board) -> Statuses \X SeedOwners] }

SeededTodoFiles ==
    { TodoEmpty, TodoUI, TodoOps, TodoMixed, TodoSelfGated, TodoDeployOnly }

InitSeeded ==
    \E todo \in SeededTodoFiles :
        \E board \in Seeded(SafeLoadTasks(todo)) : InitFrom(board)

SpecSeeded == InitSeeded /\ [][Next]_vars

----------------------------------------------------------------------------
(* The context used directly: a caller holding a CollaborationContext      *)
(* applies assign_task and update_status to it with keys, owners and       *)
(* statuses of its choice, and runs single agents on it in any order.      *)

\* a key no loaded board holds
UnknownKey == <<"n","o","n","e","x","i","s","t","e","n","t",":",":","k","e","y">>

\* an agent's name and a name no agent has
CallOwners == {"Backend Agent", "X"}

CallKeys == {Key(task_board[i]) : i \in 1..Len(task_board)} \cup {UnknownKey}

\* the record of a call: it is the n-th operation applied, and the last of
\* `same` successive calls of this operation with these arguments
CallOf(op, key, arg) ==
    [op |-> op, key |-> key, arg |-> arg, n |-> call.n + 1,
     same |-> IF call.op = op /\ call.key = key /\ call.arg = arg
              THEN call.same + 1 ELSE 1]

\* agent.perform(context) for the agent of a class
Perform(class) ==
    LET name == agents[IndexOf(class)].name
    IN  CASE class = "LeadArchitect" -> LeadArchitect_perform(Context, repo_dirs)
          [] class = "Architect" -> Architect_perform(Context)
          [] class = "BackendAgent" -> BackendAgent_perform(Context, name)
          [] class = "FrontendAgent" -> FrontendAgent_perform(Context, name)
          [] class = "OptimizationAgent" -> OptimizationAgent_perform(Context)
          [] class = "QAAgent" -> QAAgent_perform(Context)
          [] class = "ReleaseEngineer" -> ReleaseEngineer_perform(Context, name)
          [] class = "DocumentationAgent" -> DocumentationAgent_perform(Context)
          [] class = "ReviewArchitect" -> ReviewArchitect_perform(Context)

\* context.assign_task(key, owner)
CallAssignTask ==
    /\ pc = "called"
    /\ call.n < MaxCalls
    /\ \E key \in CallKeys, owner \in CallOwners :
           LET context == assign_task(Context, key, owner)
           IN  /\ task_board' = context.task_board
               /\ assignments' = context.assignments
               /\ call' = CallOf("assign_task", key, owner)
    /\ UNCHANGED << repo_dirs, execution_log, cycles, cycle, agent_idx, pc >>

\* context.update_status(key, status)
CallUpdateStatus ==
    /\ pc = "called"
    /\ call.n < MaxCalls
    /\ \E key \in CallKeys, status \in Statuses :
           LET context == update_status(Context, key, status)
           IN  /\ task_board' = context.task_board
               /\ assignments' = context.assignments
               /\ call' = CallOf("update_status", key, status)
    /\ UNCHANGED << repo_dirs, execution_log, cycles, cycle, agent_idx, pc >>

\* agent.run(context) for one agent of the list
CallRun ==
    /\ pc = "called"
    /\ call.n < MaxCalls
    /\ \E a \in 1..NumAgents :
           LET outcome == Perform(agents[a].class)
           IN  IF outcome.raised
               THEN /\ pc' = "raised"
                    /\ UNCHANGED << task_board, assignments, execution_log, call >>
               ELSE /\ task_board' = outcome.context.task_board
                    /\ assignments' = outcome.context.assignments
                    /\ execution_log' = Append(execution_log,
                           [from_agent |-> agents[a].name,
                            to_agent |-> agents[a].recipient,
                            message |-> outcome.message])
                    /\ call' = CallOf("run", << >>, agents[a].name)
                    /\ pc' = pc
    /\ UNCHANGED << repo_dirs, cycles, cycle, agent_idx >>

NextCalls ==
    \/ CallAssignTask
    \/ CallUpdateStatus
    \/ CallRun

CallTodoFiles ==
    { TodoEmpty, TodoOps, TodoMixed, TodoSelfGated, TodoAllKeywords,
      TodoFrontend }

\* the boards the caller starts from: loaded ones, and one task constructed
\* with any status and owner
CallBoards ==
    {SafeLoadTasks(todo) : todo \in CallTodoFiles}
        \cup Seeded(SafeLoadTasks(TodoUI))

\* CollaborationContext() over one of the boards
InitCalls ==
    /\ repo_dirs = << "docs", "scripts", "src" >>
    /\ task_board \in CallBoards
    /\ assignments = << >>
    /\ execution_log = << >>
    /\ cycles = 0
    /\ cycle = 0
    /\ agent_idx = 1
    /\ pc = "called"
    /\ call = NoCall

SpecCalls == InitCalls /\ [][NextCalls]_vars

----------------------------------------------------------------------------
(* Vocabulary of the properties *)

Tasks == 1..Len(task_board)

\* position of a status in pending -> assigned -> ready-for-qa -> done -> released
Rank(status) ==
    CASE status = "pending" -> 0
      [] status = "assigned" -> 1
      [] status = "ready-for-qa" -> 2
      [] status = "done" -> 3
      [] status = "released" -> 4

IsTestTask(i) == Contains(Lower(task_board[i].description), <<"t","e","s","t">>)

\* every task of the section of task i whose description contains "test" is done
TestsDone(i) ==
    \A j \in Tasks :
        (task_board[j].section = task_board[i].section /\ IsTestTask(j))
            => task_board[j].status = "done"

\* task i is one the Release role processes: a key of its assignment list
OwnedByRelease(i) ==
    /\ "Release Engineer" \in DOMAIN assignments
    /\ \E k \in 1..Len(assignments["Release Engineer"]) :
           assignments["Release Engineer"][k] = Key(task_board[i])

\* the Release role is the next to run
ReleaseTurn ==
    /\ pc = "running"
    /\ agent_idx \in 1..Len(agents)
    /\ agents[agent_idx].name = "Release Engineer"

\* note n of the log is from `sender`, of kind `kind`
NoteIs(log, n, sender, kind) ==
    /\ n \in 1..Len(log)
    /\ log[n].from_agent = sender
    /\ log[n].message.kind = kind

\* note n is such a note and lists the pair << first, second >>
NoteLists(log, n, sender, kind, first, second) ==
    /\ NoteIs(log, n, sender, kind)
    /\ \E k \in 1..Len(log[n].message.items) :
           log[n].message.items[k] = << first, second >>

\* the step is a call of `op` by the caller holding the context
Called(op) == call'.n = call.n + 1 /\ call'.op = op

\* the step is a run of the agent `name` by the caller holding the context
Ran(name) == Called("run") /\ call'.arg = name

\* the keys an owner has in an assignment index
Listed(index, owner) == IF owner \in DOMAIN index THEN index[owner] ELSE << >>

\* occurrences of a key in a list of keys
Count(list, key) == Cardinality({k \in 1..Len(list) : list[k] = key})

\* the log after the step is the log before it and one more note
OneNoteAppended ==
    /\ Len(execution_log') = Len(execution_log) + 1
    /\ SubSeq(execution_log', 1, Len(execution_log)) = execution_log

\* agent.perform(context) for the agent of a class, on a given context
PerformOn(context, class) ==
    LET name == agents[IndexOf(class)].name
    IN  CASE class = "LeadArchitect" -> LeadArchitect_perform(context, repo_dirs)
          [] class = "Architect" -> Architect_perform(context)
          [] class = "BackendAgent" -> BackendAgent_perform(context, name)
          [] class = "FrontendAgent" -> FrontendAgent_perform(context, name)
          [] class = "OptimizationAgent" -> OptimizationAgent_perform(context)
          [] class = "QAAgent" -> QAAgent_perform(context)
          [] class = "ReleaseEngineer" -> ReleaseEngineer_perform(context, name)
          [] class = "DocumentationAgent" -> DocumentationAgent_perform(context)
          [] class = "ReviewArchitect" -> ReviewArchitect_perform(context)

\* `for agent in agents: agent.run(context)` from agents[a] on: the context
\* the inner loop leaves
RECURSIVE InnerLoop(_, _)
InnerLoop(context, a) ==
    IF a > NumAgents THEN context
    ELSE InnerLoop(PerformOn(context, agents[a].class).context, a + 1)

\* the context one more cycle would leave
OneMoreCycle == InnerLoop(Context, 1)

\* the inner loop stands at one of the nine roles or at the convergence
\* check that follows the ninth: a running run has a next step
AtRoleOrCycleEnd == agent_idx \in 1..10

\* the cycle in which note n was written
CycleOfNote(n) == ((n - 1) \div 9) + 1

----------------------------------------------------------------------------
(* C1 *)

\* C1 (as claimed): no step of any role moves a task's status to an earlier
\* position of pending -> assigned -> ready-for-qa -> done -> released, and
\* only a task owned by the Release role becomes released.
C1_StatusMonotonic ==
    [][\A i \in Tasks :
          /\ Rank(task_board'[i].status) >= Rank(task_board[i].status)
          /\ (task_board'[i].status = "released"
                 => task_board'[i].owner = "Release Engineer")]_vars

----------------------------------------------------------------------------
(* C2 *)

\* C2: a Release step releases a task it owns if and only if, at that
\* moment, every same-section test task is done; otherwise it leaves the
\* status as it is and its note records the section as blocked.  No other
\* step releases a task, so a Release-owned task that is assigned stays
\* assigned across every step taken while a same-section test task is not
\* done.
C2_ReleaseGating ==
    [][\A i \in Tasks :
          /\ (ReleaseTurn /\ pc' = "running" /\ OwnedByRelease(i)) =>
                IF TestsDone(i)
                THEN task_board'[i].status = "released"
                ELSE /\ task_board'[i].status = task_board[i].status
                     /\ NoteLists(execution_log', Len(execution_log'),
                                  "Release Engineer", "release-blocked",
                                  task_board[i].section, WaitingOnTests)
          /\ (task_board'[i].status = "released"
                  /\ task_board[i].status /= "released") =>
                ReleaseTurn /\ OwnedByRelease(i) /\ TestsDone(i)
          /\ (OwnedByRelease(i) /\ task_board[i].status = "assigned"
                  /\ ~TestsDone(i)) =>
                task_board'[i].status = "assigned"]_vars

\* a Release step has just released one task and left another one blocked
C2_Witness ==
    /\ NoteIs(execution_log, Len(execution_log), "Release Engineer",
              "release-blocked")
    /\ \E i \in Tasks : OwnedByRelease(i) /\ task_board[i].status = "released"
    /\ \E i \in Tasks : /\ OwnedByRelease(i) /\ ~TestsDone(i)
                        /\ task_board[i].status = "assigned"

----------------------------------------------------------------------------
(* C3 *)

DESC_Test == <<"R","u","n"," ","i","n","t","e","g","r","a","t","i","o","n"," ","t","e","s","t">>

DESC_Deploy == <<"D","e","p","l","o","y"," ","s","e","r","v","i","c","e">>

\* the board holds "Run integration test" and "Deploy service", in one
\* section, and nothing else
TwoTaskBoard ==
    /\ Len(task_board) = 2
    /\ \E i, j \in Tasks :
           /\ task_board[i].description = DESC_Test
           /\ task_board[j].description = DESC_Deploy
           /\ task_board[i].section = task_board[j].section

\* note n is the first in which QA reports the test task validated
FirstQAOfTest(n) ==
    /\ NoteLists(execution_log, n, "QA Agent", "qa-approved",
                 task_board[1].section, DESC_Test)
    /\ \A m \in 1..(n - 1) :
           ~NoteLists(execution_log, m, "QA Agent", "qa-approved",
                      task_board[1].section, DESC_Test)

\* note n is the first in which Release reports the deploy task packaged
FirstReleaseOfDeploy(n) ==
    /\ NoteLists(execution_log, n, "Release Engineer", "release-packaged",
                 task_board[1].section, DESC_Deploy)
    /\ \A m \in 1..(n - 1) :
           ~NoteLists(execution_log, m, "Release Engineer", "release-packaged",
                      task_board[1].section, DESC_Deploy)

DeployReleased ==
    \E i \in Tasks : /\ task_board[i].description = DESC_Deploy
                     /\ task_board[i].status = "released"

\* C3 (as claimed): on the two-task board the deploy task is released in a
\* cycle after the one in which QA marks the test task done.
C3_ReleasedInLaterCycle ==
    TwoTaskBoard =>
        \A q, r \in 1..Len(execution_log) :
            (FirstQAOfTest(q) /\ FirstReleaseOfDeploy(r))
                => CycleOfNote(r) > CycleOfNote(q)

\* C3 (amended): on the two-task board the deploy task is released by the
\* Release step that directly follows the QA step marking the test task
\* done, in the same cycle and never before it; and the run returns with
\* the deploy task released.
C3_ReleasedInSameCycle ==
    TwoTaskBoard =>
        /\ \A r \in 1..Len(execution_log) :
               FirstReleaseOfDeploy(r) =>
                   /\ FirstQAOfTest(r - 1)
                   /\ CycleOfNote(r) = CycleOfNote(r - 1)
        /\ DeployReleased => \E r \in 1..Len(execution_log) : FirstReleaseOfDeploy(r)
        /\ pc = "returned" => DeployReleased

\* the Release step of the first cycle has just released the deploy task
C3_Witness ==
    /\ TwoTaskBoard
    /\ DeployReleased
    /\ FirstReleaseOfDeploy(Len(execution_log))
    /\ CycleOfNote(Len(execution_log)) = 1

----------------------------------------------------------------------------
(* C4 *)

\* the Release note of the first cycle records the section of task i as blocked
BlockedInFirstCycle(i) ==
    \E n \in 1..Len(execution_log) :
        /\ CycleOfNote(n) = 1
        /\ NoteLists(execution_log, n, "Release Engineer", "release-blocked",
                     task_board[i].section, WaitingOnTests)

\* C4 (as claimed): a Release-owned task left blocked is released given
\* enough further cycles; here, a task blocked in the first cycle of a run
\* that went on for the largest number of cycles explored is released when
\* the run returns.
C4_BlockedEventuallyReleased ==
    (pc = "returned" /\ cycle = MaxCycles) =>
        \A i \in Tasks :
            (OwnedByRelease(i) /\ BlockedInFirstCycle(i))
                => task_board[i].status = "released"

----------------------------------------------------------------------------
(* C5 *)

\* the first cycle is complete: its nine roles have run
FirstCycleOver == CycleOver /\ cycle = 0

\* once a task has left pending it never is pending again
NeverBackToPending ==
    [][\A i \in Tasks : task_board[i].status /= "pending"
                            => task_board'[i].status /= "pending"]_vars

\* C5 (as claimed): after the first full cycle every task is assigned,
\* ready-for-qa or done, and no task returns to pending.
C5_AfterOneCycle ==
    /\ [](FirstCycleOver =>
             \A i \in Tasks :
                 task_board[i].status \in {"assigned", "ready-for-qa", "done"})
    /\ NeverBackToPending

\* C5 (amended): after the first full cycle every task is assigned,
\* ready-for-qa, done or released, and no task returns to pending.
C5_AfterOneCycleOrReleased ==
    /\ [](FirstCycleOver =>
             \A i \in Tasks :
                 task_board[i].status \in
                     {"assigned", "ready-for-qa", "done", "released"})
    /\ NeverBackToPending

\* the first cycle is complete and left a task released
C5_Witness ==
    /\ FirstCycleOver
    /\ \E i \in Tasks : task_board[i].status = "released"
    /\ \E i \in Tasks : task_board[i].status = "done"

----------------------------------------------------------------------------
(* C6 *)

\* C6: from a freshly loaded board, a task without owner is pending.
C6_UnownedIsPending ==
    \A i \in Tasks : task_board[i].owner = None => task_board[i].status = "pending"

\* a role has run and a task still has no owner
C6_Witness ==
    /\ execution_log /= << >>
    /\ \E i \in Tasks : task_board[i].owner = None

----------------------------------------------------------------------------
(* C7 *)

\* the board holds one task, and its description contains a Frontend keyword
OneFrontendTask ==
    /\ Len(task_board) = 1
    /\ \E k \in 1..Len(FRONTEND_KEYWORDS) :
           Contains(Lower(task_board[1].description), FRONTEND_KEYWORDS[k])

\* C7: a run of at most 4 cycles over a board of one Frontend-routed task
\* never has the task ready-for-qa or released, never stops before it
\* returns, and returns within its first cycle with the task done and the
\* board converged.
C7_FrontendConverges ==
    (OneFrontendTask /\ cycles <= 4) =>
        /\ task_board[1].status \notin {"ready-for-qa", "released"}
        /\ pc /= "raised"
        /\ pc = "running" => AtRoleOrCycleEnd
        /\ Len(execution_log) <= 9
        /\ pc = "returned" =>
               /\ task_board[1].status = "done"
               /\ \A i \in Tasks : task_board[i].status \in {"done", "released"}

\* a run of 4 cycles over such a board has returned
C7_Witness ==
    /\ OneFrontendTask
    /\ cycles = 4
    /\ pc = "returned"
    /\ task_board[1].status = "done"

----------------------------------------------------------------------------
(* C8 *)

\* every task is done or released and nothing was ever assigned: the board
\* is as it was seeded
SeededConverged ==
    /\ \A i \in Tasks : task_board[i].status \in {"done", "released"}
    /\ DOMAIN assignments = {}

\* C8: over a board seeded with done and released tasks only, no step
\* changes a task, and the run returns after one cycle of nine notes,
\* whatever the cycle count.
C8_EarlyTermination ==
    /\ [](SeededConverged =>
             /\ pc /= "raised"
             /\ pc = "running" => AtRoleOrCycleEnd
             /\ Len(execution_log) <= 9
             /\ pc = "returned" => (cycle = 1 /\ Len(execution_log) = 9))
    /\ [][SeededConverged =>
             (task_board' = task_board /\ assignments' = assignments)]_vars

\* run_round_robin(cycles=5) over a seeded board of two tasks has returned
C8_Witness ==
    /\ SeededConverged
    /\ Len(task_board) = 2
    /\ \E i \in Tasks : task_board[i].status = "released"
    /\ cycles = 5
    /\ pc = "returned"

----------------------------------------------------------------------------
(* C9 *)

\* C9: no role raises and the run never stops before it returns; it returns
\* at the end of a cycle, the first one that leaves the board converged, or
\* else the cycle number max(1, cycles).
C9_RunCompletes ==
    /\ pc /= "raised"
    /\ pc = "running" => AtRoleOrCycleEnd
    /\ cycle <= Max(1, cycles)
    /\ (pc = "running" /\ agent_idx = 1 /\ cycle >= 1) =>
           \E i \in Tasks : task_board[i].status \notin {"done", "released"}
    /\ pc = "returned" =>
           /\ cycle >= 1
           /\ agent_idx = Len(agents) + 1
           /\ \/ \A i \in Tasks : task_board[i].status \in {"done", "released"}
              \/ cycle = Max(1, cycles)

\* a run over a board with tasks has returned because the board converged,
\* in a cycle that is not the last one its budget allowed
C9_Witness ==
    /\ pc = "returned"
    /\ Len(task_board) > 0
    /\ cycle < Max(1, cycles)
    /\ \A i \in Tasks : task_board[i].status \in {"done", "released"}

----------------------------------------------------------------------------
(* C10 *)

\* C10: the run returns only after the ninth role of a cycle, with a log of
\* 9*n notes for some n in 1..max(1, cycles); a board that is converged
\* does not end the run while roles of the cycle are still to run.
C10_WholeCycles ==
    /\ [](pc = "returned" =>
             \E n \in 1..Max(1, cycles) : Len(execution_log) = 9 * n)
    /\ [][pc' = "returned" => (pc = "returned" \/ Len(execution_log) % 9 = 0)]_vars
    /\ [][(pc = "running" /\ Len(execution_log) % 9 /= 0
              /\ \A i \in Tasks : task_board[i].status \in {"done", "released"})
            => Len(execution_log') = Len(execution_log) + 1]_vars

\* a run with cycles <= 0 has returned after one cycle over a board that was
\* converged from the start
C10_Witness ==
    /\ pc = "returned"
    /\ cycles <= 0
    /\ Len(execution_log) = 9
    /\ SeededConverged
    /\ Len(task_board) > 0

----------------------------------------------------------------------------
\* C11: a call of assign_task or update_status with a key the task board
\* does not hold raises nothing and leaves the task board, the assignment
\* index and the note log as they were; assign_task makes no entry of the
\* index for the owner it was given.
C11_UnknownKeyIsNoOp ==
    [][ ((Called("assign_task") \/ Called("update_status"))
            /\ ~HasKey(task_board, call'.key))
        => /\ task_board' = task_board
           /\ assignments' = assignments
           /\ DOMAIN assignments' = DOMAIN assignments
           /\ execution_log' = execution_log
           /\ pc' = "called" ]_vars

\* assign_task was called with an unknown key and an owner the index does
\* not hold, on a context that holds assignments and notes
C11_Witness ==
    /\ call.op = "assign_task"
    /\ call.key = UnknownKey
    /\ task_board /= << >>
    /\ ~HasKey(task_board, call.key)
    /\ DOMAIN assignments /= {}
    /\ call.arg \notin DOMAIN assignments
    /\ execution_log /= << >>

----------------------------------------------------------------------------
\* C12: assign_task is not idempotent on the assignment index.  Each call
\* with a known key appends the key once more to the owner's list and
\* leaves the other owners' lists alone, so after n successive calls with
\* the same key and owner on a new context the list is the key n times;
\* the task's owner and status after a repeated call are what they were
\* after the first.
C12_AssignAppendsEachTime ==
    /\ [][ (Called("assign_task") /\ HasKey(task_board, call'.key))
           => /\ Listed(assignments', call'.arg)
                     = Append(Listed(assignments, call'.arg), call'.key)
              /\ Count(Listed(assignments', call'.arg), call'.key)
                     = Count(Listed(assignments, call'.arg), call'.key) + 1
              /\ \A o \in DOMAIN assignments \ {call'.arg} :
                     Listed(assignments', o) = assignments[o]
              /\ call'.same > 1 => task_board' = task_board ]_vars
    /\ [](  (call.op = "assign_task" /\ HasKey(task_board, call.key)
                /\ call.same = call.n)
            => /\ Listed(assignments, call.arg) = [k \in 1..call.n |-> call.key]
               /\ Count(Listed(assignments, call.arg), call.key) = call.n
               /\ Entry(task_board, call.key).owner = call.arg
               /\ Entry(task_board, call.key).status = "assigned" )

\* assign_task was called three times in a row with one known key and one
\* owner, and the key stands three times in the owner's list
C12_Witness ==
    /\ call.op = "assign_task"
    /\ HasKey(task_board, call.key)
    /\ call.same = MaxCalls
    /\ Count(Listed(assignments, call.arg), call.key) = MaxCalls
    /\ Entry(task_board, call.key).owner = call.arg
    /\ Entry(task_board, call.key).status = "assigned"

----------------------------------------------------------------------------
\* C13: a call of assign_task with a known key sets the task's owner to the
\* owner given and its status to assigned, whatever its status was, and
\* changes nothing else of the task and no other task.
C13_AssignForcesAssigned ==
    [][ (Called("assign_task") /\ HasKey(task_board, call'.key))
        => /\ Len(task_board') = Len(task_board)
           /\ \A i \in Tasks :
                  IF Key(task_board[i]) = call'.key
                  THEN task_board'[i] =
                           [task_board[i] EXCEPT !.owner = call'.arg,
                                                 !.status = "assigned"]
                  ELSE task_board'[i] = task_board[i] ]_vars

\* assign_task was called on a task that another owner held, on a board
\* whose other task is released and stays so
C13_Witness ==
    /\ call.op = "assign_task"
    /\ call.n = MaxCalls
    /\ \E i, j \in Tasks :
           /\ Key(task_board[i]) = call.key
           /\ task_board[i].owner = call.arg
           /\ task_board[i].status = "assigned"
           /\ Key(task_board[j]) /= call.key
           /\ task_board[j].status = "released"
           /\ task_board[j].owner \notin {None, call.arg}

----------------------------------------------------------------------------
\* C14: a call of update_status with a known key overwrites the task's
\* status with the status given, from whatever status to whatever status,
\* and leaves the task's owner, every other task, the assignment index and
\* the note log as they were.
C14_SetStatusOverwrites ==
    [][ (Called("update_status") /\ HasKey(task_board, call'.key))
        => /\ Len(task_board') = Len(task_board)
           /\ \A i \in Tasks :
                  IF Key(task_board[i]) = call'.key
                  THEN /\ task_board'[i].status = call'.arg
                       /\ task_board'[i] =
                              [task_board[i] EXCEPT !.status = call'.arg]
                  ELSE task_board'[i] = task_board[i]
           /\ assignments' = assignments
           /\ execution_log' = execution_log
           /\ pc' = "called" ]_vars

\* update_status was called on an owned task and set it pending, on a
\* context that holds assignments and a note
C14_Witness ==
    /\ call.op = "update_status"
    /\ call.arg = "pending"
    /\ HasKey(task_board, call.key)
    /\ Entry(task_board, call.key).status = "pending"
    /\ Entry(task_board, call.key).owner /= None
    /\ Len(task_board) > 1
    /\ DOMAIN assignments /= {}
    /\ execution_log /= << >>

----------------------------------------------------------------------------
\* the lower-cased description of task i contains the word
Mentions(i, word) == Contains(Lower(task_board[i].description), word)

\* the owner the routing rules give task i, first matching rule first
RoutedTo(i) ==
    IF Mentions(i, <<"s","i","d","e","b","a","r">>) \/ Mentions(i, <<"l","i","n",
        "k">>) \/ Mentions(i, <<"u","i">>)
    THEN "Frontend Agent"
    ELSE IF Mentions(i, <<"d","e","p","l","o","y">>) THEN "Release Engineer"
    ELSE IF Mentions(i, <<"t","e","s","t">>) THEN "Backend Agent"
    ELSE "Optimization Agent"

\* C15: one run of the Architect assigns every task that is neither done
\* nor released to the one owner the rules give it, Frontend Agent before
\* Release Engineer before Backend Agent before Optimization Agent: the
\* task gets that owner and the status assigned, and its key is added once
\* to that owner's list and to no other list.  A task that is done or
\* released keeps its fields and is added to no list.
C15_ArchitectRouting ==
    [][ Ran("Architect")
        => /\ Len(task_board') = Len(task_board)
           /\ \A i \in Tasks :
                  IF task_board[i].status \in {"done", "released"}
                  THEN /\ task_board'[i] = task_board[i]
                       /\ \A o \in DOMAIN assignments' :
                              Count(assignments'[o], Key(task_board[i]))
                                  = Count(Listed(assignments, o), Key(task_board[i]))
                  ELSE /\ task_board'[i] =
                              [task_board[i] EXCEPT !.owner = RoutedTo(i),
                                                    !.status = "assigned"]
                       /\ RoutedTo(i) \in DOMAIN assignments'
                       /\ \A o \in DOMAIN assignments' :
                              Count(assignments'[o], Key(task_board[i]))
                                  = Count(Listed(assignments, o), Key(task_board[i]))
                                        + (IF o = RoutedTo(i) THEN 1 ELSE 0)
           /\ DOMAIN assignments \subseteq DOMAIN assignments' ]_vars

\* the Architect ran on a board with a done task nobody owns and a task
\* that mentions "ui" and "test": the first is as it was, the second is the
\* Frontend Agent's
C15_Witness ==
    /\ call.op = "run"
    /\ call.arg = "Architect"
    /\ \E i, j \in Tasks :
           /\ task_board[i].status = "done"
           /\ task_board[i].owner = None
           /\ Mentions(j, <<"u","i">>)
           /\ Mentions(j, <<"t","e","s","t">>)
           /\ task_board[j].status = "assigned"
           /\ task_board[j].owner = "Frontend Agent"
           /\ Count(Listed(assignments, "Frontend Agent"), Key(task_board[j])) = 1
           /\ "Backend Agent" \notin DOMAIN assignments

----------------------------------------------------------------------------
\* the roles in the order of the handoff cycle
HandoffOrder ==
    << "Lead Architect", "Architect", "Backend Agent", "Frontend Agent",
       "Optimization Agent", "QA Agent", "Release Engineer",
       "Documentation Agent", "Review Architect" >>

\* the role after position k of the cycle, the first after the last
Successor(k) == HandoffOrder[(k % Len(HandoffOrder)) + 1]

\* the step is the execution of the role the inner loop stands at
RoleExecuted == agent_idx \in 1..Len(HandoffOrder) /\ agent_idx' = agent_idx + 1

\* C16: the handoff chain.  Every execution of a role appends exactly one
\* note, sent by that role to its successor in the cycle, and the log
\* changes in no other step.  In the log of a run the senders are Lead,
\* Architect, Backend, Frontend, Optimization, QA, Release, Documentation,
\* Review, cycle after cycle, and the recipient of every note is the sender
\* of the next one, the Review Architect's of a cycle being the Lead
\* Architect of the next.
C16_HandoffChain ==
    /\ [][ /\ RoleExecuted
               => /\ OneNoteAppended
                  /\ execution_log'[Len(execution_log')].from_agent
                         = HandoffOrder[agent_idx]
                  /\ execution_log'[Len(execution_log')].to_agent
                         = Successor(agent_idx)
           /\ execution_log' /= execution_log => RoleExecuted ]_vars
    /\ [](  /\ \A n \in 1..Len(execution_log) :
                   /\ execution_log[n].from_agent = Successor(n - 1)
                   /\ execution_log[n].to_agent = Successor(n)
                   /\ n < Len(execution_log)
                          => execution_log[n].to_agent
                                 = execution_log[n + 1].from_agent
            /\ pc = "running"
                   => Len(execution_log)
                          = Len(HandoffOrder) * cycle + agent_idx - 1 )

\* a second cycle has begun: the ninth note is the Review Architect's to
\* the Lead Architect, who sent the tenth
C16_Witness ==
    /\ cycle >= 1
    /\ Len(execution_log) > Len(HandoffOrder)
    /\ execution_log[Len(HandoffOrder)].from_agent = "Review Architect"
    /\ execution_log[Len(HandoffOrder)].to_agent = "Lead Architect"
    /\ execution_log[Len(HandoffOrder) + 1].from_agent = "Lead Architect"

----------------------------------------------------------------------------
\* C17: the note log is append-only.  In every step of a run the log before
\* the step is a prefix of the log after it: no note is removed, replaced
\* or moved.
C17_LogAppendOnly ==
    [][ /\ Len(execution_log') >= Len(execution_log)
        /\ SubSeq(execution_log', 1, Len(execution_log)) = execution_log ]_vars

\* two whole cycles have been logged, and the notes of the first one say
\* what the first cycle did: the Architect dispatched, the Review Architect
\* found tasks outstanding
C17_Witness ==
    /\ Len(execution_log) = 2 * NumAgents
    /\ NoteIs(execution_log, 2, "Architect", "architect-dispatched")
    /\ NoteIs(execution_log, NumAgents, "Review Architect", "outstanding")
    /\ NoteIs(execution_log, 2 * NumAgents, "Review Architect", "outstanding")

----------------------------------------------------------------------------
\* the roles that only report
ReportingRoles ==
    { "Lead Architect", "Optimization Agent", "Documentation Agent",
      "Review Architect" }

\* the step is the execution of a reporting role, by a caller holding the
\* context or by the inner loop of a run
ReportingRoleExecuted ==
    \/ Called("run") /\ call'.arg \in ReportingRoles
    \/ RoleExecuted /\ HandoffOrder[agent_idx] \in ReportingRoles

\* C18: the Lead Architect, the Optimization Agent, the Documentation Agent
\* and the Review Architect change no task's owner or status and nothing of
\* the assignment index; all their execution does is append one note, which
\* they send.
C18_ReportingRolesArePure ==
    [][ ReportingRoleExecuted
        => /\ task_board' = task_board
           /\ assignments' = assignments
           /\ OneNoteAppended
           /\ execution_log'[Len(execution_log')].from_agent \in ReportingRoles
           /\ repo_dirs' = repo_dirs ]_vars

\* the Documentation Agent reported the finished tasks of a board with an
\* unfinished task and with assignments
C18_Witness ==
    /\ call.op = "run"
    /\ call.arg = "Documentation Agent"
    /\ NoteIs(execution_log, Len(execution_log), "Documentation Agent",
              "release-notes")
    /\ DOMAIN assignments /= {}
    /\ \E i, j \in Tasks :
           /\ task_board[i].status \in {"done", "released"}
           /\ task_board[j].status = "assigned"
           /\ task_board[j].owner /= None

----------------------------------------------------------------------------
\* the tasks without an owner that are neither done nor released
Unowned ==
    { i \in Tasks : /\ task_board[i].owner = None
                    /\ task_board[i].status \notin {"done", "released"} }

\* the step is the execution of the Optimization Agent, by a caller holding
\* the context or by the inner loop of a run
OptimizationExecuted ==
    \/ Ran("Optimization Agent")
    \/ RoleExecuted /\ HandoffOrder[agent_idx] = "Optimization Agent"

\* C19: the tasks the Optimization Agent reports as unowned are exactly the
\* tasks whose owner is None and whose status is neither done nor released,
\* one that was given the status assigned without an owner included; it
\* reports a clean pipeline exactly when there is no such task.
C19_OrphanDetection ==
    [][ OptimizationExecuted
        => LET message == execution_log'[Len(execution_log')].message
           IN  /\ message.kind \in {"unowned-tasks", "throughput-clean"}
               /\ message.kind = "throughput-clean" <=> Unowned = {}
               /\ Len(message.items) = Cardinality(Unowned)
               /\ { message.items[k] : k \in 1..Len(message.items) }
                      = { Key(task_board[i]) : i \in Unowned } ]_vars

\* the Optimization Agent reported a task that has the status assigned and
\* no owner, and did not report the other task of the board, which has an
\* owner
C19_Witness ==
    /\ call.op = "run"
    /\ call.arg = "Optimization Agent"
    /\ NoteIs(execution_log, Len(execution_log), "Optimization Agent",
              "unowned-tasks")
    /\ \E i, j \in Tasks :
           /\ task_board[i].status = "assigned"
           /\ task_board[i].owner = None
           /\ execution_log[Len(execution_log)].message.items
                  = << Key(task_board[i]) >>
           /\ task_board[j].status = "assigned"
           /\ task_board[j].owner /= None

----------------------------------------------------------------------------
\* the step is the execution of the QA Agent, by a caller holding the
\* context or by the inner loop of a run
QAExecuted ==
    \/ Ran("QA Agent")
    \/ RoleExecuted /\ HandoffOrder[agent_idx] = "QA Agent"

\* C20: the QA Agent sets to done every task whose status is ready-for-qa,
\* whoever owns it or nobody, and changes nothing else of it and no other
\* task; right after its execution no task is ready-for-qa.
C20_QAValidatesAllReady ==
    [][ QAExecuted
        => /\ Len(task_board') = Len(task_board)
           /\ \A i \in Tasks :
                  /\ task_board'[i] =
                         IF task_board[i].status = "ready-for-qa"
                         THEN [task_board[i] EXCEPT !.status = "done"]
                         ELSE task_board[i]
                  /\ task_board'[i].status /= "ready-for-qa" ]_vars

\* the QA Agent approved one task, which an owner other than the Backend
\* Agent holds and which is done now; the other task of the board is still
\* pending
C20_Witness ==
    /\ call.op = "run"
    /\ call.arg = "QA Agent"
    /\ NoteIs(execution_log, Len(execution_log), "QA Agent", "qa-approved")
    /\ \E i, j \in Tasks :
           /\ execution_log[Len(execution_log)].message.items
                  = << << task_board[i].section, task_board[i].description >> >>
           /\ task_board[i].status = "done"
           /\ task_board[i].owner = "X"
           /\ task_board[j].status = "pending"

----------------------------------------------------------------------------
\* C21: the set of tasks is fixed for a run.  No step adds or removes a
\* task, and no step changes a task's section or description (hence its
\* key): the owner and the status are the only fields ever written.
C21_TaskSetFixed ==
    [][ /\ Len(task_board') = Len(task_board)
        /\ \A i \in Tasks :
               /\ task_board'[i].section = task_board[i].section
               /\ task_board'[i].description = task_board[i].description
               /\ Key(task_board'[i]) = Key(task_board[i])
               /\ DOMAIN task_board'[i] = DOMAIN task_board[i] ]_vars

\* a run of two cycles or more has returned with its three tasks on the
\* board, one released, one done and one assigned
C21_Witness ==
    /\ pc = "returned"
    /\ cycle >= 2
    /\ Len(task_board) = 3
    /\ \E i, j, k \in Tasks :
           /\ task_board[i].status = "released"
           /\ task_board[j].status = "done"
           /\ task_board[k].status = "assigned"

----------------------------------------------------------------------------
\* the board holds a task of the section "System"
SystemBoard == task_board /= << >> /\ task_board[1].section = <<"S","y","s","t","e","m">>

\* C22: the outcomes of a failed load.  A missing todo.md gives an empty
\* board, and a run over an empty board is converged throughout, raises
\* nothing and returns after exactly one cycle of nine notes.  A todo.md
\* that exists and cannot be read gives a board of exactly one task, of the
\* section "System", pending and without owner, whose description says the
\* read failed; the run over it raises nothing: the Architect assigns the
\* task as any other and the run returns after whole cycles.
C22_LoadErrorOutcomes ==
    /\ SafeLoadTasks(TodoMissing) = << >>
    /\ \A todo \in {TodoUnreadable, TodoIsDirectory} :
           /\ Len(SafeLoadTasks(todo)) = 1
           /\ SafeLoadTasks(todo)[1] =
                  [section |-> <<"S","y","s","t","e","m">>,
                   description |-> <<"F","a","i","l","e","d"," ","t","o"," ","r","e","a","d",
                       " ","t","o","d","o",".","m","d"," ","(">> \o todo.error \o <<")">>,
                   owner |-> None, status |-> "pending"]
    /\ task_board = << >>
           => /\ pc /= "raised"
              /\ cycle <= 1
              /\ pc = "returned" => cycle = 1 /\ Len(execution_log) = NumAgents
    /\ SystemBoard
           => /\ Len(task_board) = 1
              /\ pc /= "raised"
              /\ (cycle = 0 /\ agent_idx <= 2)
                     => task_board[1].status = "pending" /\ task_board[1].owner = None
              /\ (cycle > 0 \/ agent_idx > 2)
                     => task_board[1].status /= "pending" /\ task_board[1].owner /= None
              /\ pc = "returned"
                     => cycle >= 1 /\ Len(execution_log) = NumAgents * cycle

\* the run over the board of a todo.md that is a directory has returned:
\* the Backend Agent owns the System task, which is done
C22_Witness ==
    /\ pc = "returned"
    /\ SystemBoard
    /\ task_board[1].description
           = <<"F","a","i","l","e","d"," ","t","o"," ","r","e","a","d"," ","t","o","d","o",".",
               "m","d"," ","(","[","E","r","r","n","o"," ","2","1","]"," ","I","s"," ","a"," ",
               "d","i","r","e","c","t","o","r","y",":"," ","'","/","s","r","v","/","t","e","s",
               "t","/","t","o","d","o",".","m","d","'",")">>
    /\ task_board[1].owner = "Backend Agent"
    /\ task_board[1].status = "done"
    /\ NoteIs(execution_log, Len(execution_log), "Review Architect", "converged")

----------------------------------------------------------------------------
\* the owners whose list in the assignment index holds the key
Holders(key) ==
    { o \in DOMAIN assignments : Count(assignments[o], key) > 0 }

\* C23: over a whole run no task key is assigned more than once: no key
\* occurs more than once in the assignment index.
C23_AssignedOnce ==
    \A i \in Tasks :
        /\ Cardinality(Holders(Key(task_board[i]))) <= 1
        /\ \A o \in DOMAIN assignments :
               Count(assignments[o], Key(task_board[i])) <= 1

----------------------------------------------------------------------------
\* every task is done or released
AllTerminal == \A i \in Tasks : task_board[i].status \in {"done", "released"}

\* the Review Architect's note of cycle k
ReviewNote(k) == execution_log[NumAgents * k]

\* C24: in a run from an all-pending board the tasks at the end of every
\* completed cycle are as they were at the end of the first one.  At the
\* end of a cycle one more cycle would leave every status and owner as it
\* is, and the Review Architect's note of every cycle lists the outstanding
\* tasks its note of the first cycle lists.  So the board converges at the
\* end of cycle 1 or never, and what a later cycle adds is notes and
\* entries of the assignment index.
C24_CyclesRepeat ==
    /\ CycleOver
           => /\ OneMoreCycle.task_board = task_board
              /\ AllTerminal => cycle = 0
              /\ ~AllTerminal
                     => \E o \in DOMAIN assignments :
                            Len(OneMoreCycle.assignments[o]) > Len(assignments[o])
    /\ \A k \in 1..MaxCycles :
           NumAgents * k <= Len(execution_log)
               => ReviewNote(k).message = ReviewNote(1).message
    /\ (pc = "returned" /\ AllTerminal) => cycle <= 1
    /\ (pc = "running" /\ cycle >= 1) => ~AllTerminal

\* the third cycle of a run is over: the board is as the first cycle left
\* it, with a done task, a released task and a task still assigned, which
\* the Architect has assigned three times
C24_Witness ==
    /\ CycleOver
    /\ cycle = 2
    /\ \E i, j, k \in Tasks :
           /\ task_board[i].status = "done"
           /\ task_board[j].status = "released"
           /\ task_board[k].status = "assigned"
           /\ Count(Listed(assignments, task_board[k].owner),
                    Key(task_board[k])) = 3

----------------------------------------------------------------------------
\* the Architect of the first cycle has run
Dispatched == cycle > 0 \/ agent_idx > IndexOf("Architect")

\* C25: a task routed to the Optimization Agent is never advanced.  From
\* the first Architect step on it is the Optimization Agent's with status
\* assigned in every state, and no step writes it.  A board with such a
\* task never converges: the Review Architect reports it outstanding in
\* every cycle and the run returns only when max(1, cycles) cycles are
\* over.
C25_OptimizationTaskStalls ==
    /\ [](\A i \in Tasks :
              RoutedTo(i) = "Optimization Agent"
                  => /\ Dispatched
                         => /\ task_board[i].owner = "Optimization Agent"
                            /\ task_board[i].status = "assigned"
                     /\ \A k \in 1..MaxCycles :
                            NumAgents * k <= Len(execution_log)
                                => /\ ReviewNote(k).message.kind = "outstanding"
                                   /\ \E n \in 1..Len(ReviewNote(k).message.items) :
                                          ReviewNote(k).message.items[n]
                                              = Key(task_board[i])
                     /\ pc = "returned"
                            => /\ cycle = (IF cycles > 1 THEN cycles ELSE 1)
                               /\ Len(execution_log) = NumAgents * cycle)
    /\ [][ \A i \in Tasks :
               (task_board[i].owner = "Optimization Agent"
                    /\ RoutedTo(i) = "Optimization Agent")
                   => task_board'[i] = task_board[i] ]_vars

\* a run with the largest budget has returned after all its cycles with
\* the Optimization Agent's task assigned and another task done
C25_Witness ==
    /\ pc = "returned"
    /\ cycles = MaxCycles
    /\ cycle = MaxCycles
    /\ \E i, j \in Tasks :
           /\ RoutedTo(i) = "Optimization Agent"
           /\ task_board[i].status = "assigned"
           /\ task_board[j].status = "done"
    /\ ReviewNote(MaxCycles).message.kind = "outstanding"

----------------------------------------------------------------------------
\* task i goes to the Release Engineer and its description contains "test"
SelfGating(i) == RoutedTo(i) = "Release Engineer" /\ Mentions(i, <<"t","e","s","t">>)

\* C26: a task of the Release Engineer whose own description contains
\* "test" is one of the dependencies that gate it, so it is never released
\* (nor done) in any cycle, and no other task of the Release Engineer in
\* its section is ever released either.
C26_SelfGatingNeverReleased ==
    \A i \in Tasks :
        SelfGating(i)
            => /\ task_board[i].status \in {"pending", "assigned"}
               /\ \E d \in 1..Len(section_dependencies(Context, task_board[i].section)) :
                      section_dependencies(Context, task_board[i].section)[d]
                          = Key(task_board[i])
               /\ \A j \in Tasks :
                      (RoutedTo(j) = "Release Engineer"
                           /\ task_board[j].section = task_board[i].section)
                          => task_board[j].status \in {"pending", "assigned"}

\* a run of two cycles or more has returned: the Release Engineer still
\* holds, assigned, a task that contains "test" and another task of the
\* same section that does not
C26_Witness ==
    /\ pc = "returned"
    /\ cycle >= 2
    /\ \E i, j \in Tasks :
           /\ SelfGating(i)
           /\ ~Mentions(j, <<"t","e","s","t">>)
           /\ RoutedTo(j) = "Release Engineer"
           /\ task_board[j].section = task_board[i].section
           /\ task_board[i].owner = "Release Engineer"
           /\ task_board[j].owner = "Release Engineer"
           /\ task_board[i].status = "assigned"
           /\ task_board[j].status = "assigned"

----------------------------------------------------------------------------
\* C27: in every state of a run a task with status released has every task
\* of its section whose description contains "test" in status done.
C27_ReleasedHasTestsDone ==
    \A i, j \in Tasks :
        (task_board[i].status = "released"
             /\ task_board[j].section = task_board[i].section
             /\ Mentions(j, <<"t","e","s","t">>))
            => task_board[j].status = "done"

----------------------------------------------------------------------------
\* a cycle has been completed and no agent has run since
CycleCompleted ==
    \/ CycleOver
    \/ pc = "returned" /\ cycle >= 1
    \/ pc = "running" /\ cycle >= 1 /\ agent_idx = 1

\* C28: at the end of every completed cycle of a run no task is pending
\* and no task is ready-for-qa: every task is assigned, done or released.
C28_CycleEndStatuses ==
    CycleCompleted
        => \A i \in Tasks :
               task_board[i].status \in {"assigned", "done", "released"}

\* the first cycle is over on a board of three tasks: the Backend Agent
\* reported a task ready for QA in it and the QA Agent approved it, and the
\* tasks are done, released and assigned
C28_Witness ==
    /\ CycleOver
    /\ cycle = 0
    /\ NoteIs(execution_log, IndexOf("BackendAgent"), "Backend Agent",
              "backend-completed")
    /\ NoteIs(execution_log, IndexOf("QAAgent"), "QA Agent", "qa-approved")
    /\ \E i, j, k \in Tasks :
           /\ task_board[i].status = "done"
           /\ task_board[i].owner = "Backend Agent"
           /\ task_board[j].status = "released"
           /\ task_board[k].status = "assigned"

----------------------------------------------------------------------------
\* C29: ownership is stable and unambiguous during a run.  Once a task has
\* an owner no step of any cycle gives it another one, and each task key
\* occurs in the assignment list of at most one owner.
C29_OwnershipStable ==
    /\ [][ \A i \in Tasks :
               task_board[i].owner /= None
                   => task_board'[i].owner = task_board[i].owner ]_vars
    /\ [](\A i \in Tasks :
              /\ Cardinality(Holders(Key(task_board[i]))) <= 1
              /\ task_board[i].owner /= None
                     => Holders(Key(task_board[i])) = {task_board[i].owner})

\* the Architect of the third cycle has assigned a blocked task of the
\* Release Engineer for the third time: the task has the owner it had, and
\* its key is in that owner's list only
C29_Witness ==
    /\ pc = "running"
    /\ cycle = 2
    /\ agent_idx = IndexOf("Architect") + 1
    /\ \E i \in Tasks :
           /\ task_board[i].owner = "Release Engineer"
           /\ task_board[i].status = "assigned"
           /\ Count(Listed(assignments, "Release Engineer"), Key(task_board[i])) = 3
           /\ Holders(Key(task_board[i])) = {"Release Engineer"}

----------------------------------------------------------------------------
\* C30: the assignment index agrees with the task board in every state of
\* a run.  Every key in the list of an owner is the key of a task of the
\* board whose owner is that owner, and every task that has an owner is in
\* that owner's list; so no lookup task_board[key] of the Backend Agent,
\* the Frontend Agent or the Release Engineer raises KeyError.
C30_IndexMatchesBoard ==
    /\ \A o \in DOMAIN assignments :
           \A k \in 1..Len(assignments[o]) :
               /\ HasKey(task_board, assignments[o][k])
               /\ Entry(task_board, assignments[o][k]).owner = o
    /\ \A i \in Tasks :
           task_board[i].owner /= None
               => /\ task_board[i].owner \in DOMAIN assignments
                  /\ Count(assignments[task_board[i].owner], Key(task_board[i])) >= 1
    /\ pc /= "raised"
    /\ \A class \in {"BackendAgent", "FrontendAgent", "ReleaseEngineer"} :
           ~PerformOn(Context, class).raised

\* a run of two cycles or more has returned with the lists of three owners
\* in the index and a task for each of them on the board
C30_Witness ==
    /\ pc = "returned"
    /\ cycle >= 2
    /\ DOMAIN assignments
           = {"Backend Agent", "Release Engineer", "Optimization Agent"}
    /\ \A o \in DOMAIN assignments :
           \E i \in Tasks : task_board[i].owner = o

====
